---- MODULE Spec2Model ----
(***************************************************************************)
(* g30esli_interface: the drive-by-wire bridge of the YMC G30ES-Li cart.   *)
(* The node's main thread sends one control frame per loop iteration and   *)
(* runs the subscriber callbacks in ros::spinOnce(); two further threads   *)
(* (changeMode, readCanData) run beside it and share the globals.          *)
(*                                                                         *)
(* Units.  Joystick axes are in eighths (8 = 1.0), linear.x in 0.01 m/s,   *)
(* angular.z in 0.01 rad/s, g_current_vel_kmph in 0.001 km/h, computed     *)
(* steering angles in 0.001 degree.  With these units every double of the  *)
(* callbacks is an exact rational, and the integer fields are obtained by  *)
(* the truncation the C++ conversions perform.                             *)
(***************************************************************************)
EXTENDS Integers, Sequences, FiniteSets, TLC

VARIABLES
  g_mode,                            \* int g_mode (ros param "mode")
  g_target_velocity_ui16,            \* autonomous sample
  g_steering_angle_deg_i16,
  g_manual_target_velocity_ui16,     \* manual sample
  g_manual_steering_angle_deg_i16,
  g_current_vel_kmph,
  g_terminate_thread,
  g_automode,
  g_shift,
  g_brake,
  brake,                             \* static local of the loop body
  brake_guard,                       \* TRUE once that static is initialised
  heart_beat,                        \* static local of the loop body
  frame,                             \* <<>> or <<the last frame sent>>
  pc,                                \* main thread
  spun,                              \* topics dispatched by this spinOnce
  pc1,                               \* thread t1, changeMode
  pc2,                               \* thread t2, readCanData
  fp,                                \* the candump pipe: "open" or "closed"
  published                          \* messages on ymc_current_twist

vars == <<g_mode, g_target_velocity_ui16, g_steering_angle_deg_i16,
          g_manual_target_velocity_ui16, g_manual_steering_angle_deg_i16,
          g_current_vel_kmph, g_terminate_thread, g_automode, g_shift,
          g_brake, brake, brake_guard, heart_beat, frame, pc, spun,
          pc1, pc2, fp, published>>

autoVars == <<g_target_velocity_ui16, g_steering_angle_deg_i16>>
manualVars == <<g_manual_target_velocity_ui16, g_manual_steering_angle_deg_i16,
                g_automode, g_shift, g_brake>>
loopVars == <<brake, brake_guard, heart_beat, frame, pc, spun>>
readerVars == <<pc2, published>>

----------------------------------------------------------------------------
(* Bounds of the model. *)

\* iterations of the control loop before the node is shut down
MaxTicks == 3
\* iterations of the control loop in the studies of the buttons, of the
\* encoding, of the telemetry and of the two sources
MaxTicksButtons == 2
\* iterations allowed where the loop is followed through the wrap of the
\* heartbeat: more than the 256 values of the byte
MaxTicksHeartbeat == 257
\* messages published on ymc_current_twist before the candump pipe falls
\* silent: two in the studies of the telemetry, so that a second message
\* follows a first
MaxPublished == 2
\* the same in the two largest studies, of the commands, the buttons and the
\* frame, where the telemetry only runs alongside
MaxPublishedAside == 1

(* Program constants. *)

DefaultMode == 8
EmergencyMode == 3
DriveMode == 8
HeartBeatModulus == 256
ByteModulus == 256
SteeringOffsetDeg == 8
DefaultWheelBaseCm == 240
UInt16Modulus == 65536
Int16Bound == 32768
IntMax == 2147483647

----------------------------------------------------------------------------
(* Conversions. *)

\* double -> integer conversion: the fraction is discarded (towards zero)
Trunc(num, den) ==
  IF num >= 0 THEN num \div den ELSE -((-num) \div den)

\* the truncated value t as the 32-bit integer the conversion goes through:
\* a value that is no int gives the pattern 0x80000000, whose low 16 bits
\* are 0
ThroughInt(t) == IF -IntMax - 1 <= t /\ t <= IntMax THEN t ELSE 0

\* double -> uint16_t of the truncated value t: t itself when it fits; the
\* conversion of a value out of range is undefined, and a build stores the
\* low 16 bits of the 32-bit integer the conversion goes through, or the
\* nearest end of the range (a saturating conversion)
ToUInt16(t) ==
  IF 0 <= t /\ t < UInt16Modulus
    THEN {t}
    ELSE {ThroughInt(t) % UInt16Modulus,
          IF t < 0 THEN 0 ELSE UInt16Modulus - 1}

\* double -> int16_t of the truncated value t, likewise
ToInt16(t) ==
  IF -Int16Bound <= t /\ t < Int16Bound
    THEN {t}
    ELSE {((ThroughInt(t) + Int16Bound) % UInt16Modulus) - Int16Bound,
          IF t < 0 THEN -Int16Bound ELSE Int16Bound - 1}

\* static_cast<unsigned char>(int)
ToUChar(i) == i % ByteModulus

----------------------------------------------------------------------------
(* twist_cmd_callback: the autonomous sample. *)

\* ymc::computeTargetSteeringAngleDegree(angular_z, linear_x, wheel_base):
\* the steering angle of the single-track model, atan(wheel_base * angular_z
\* / linear_x), in 0.001 degree, tabulated for the commands of the model.
computeTargetSteeringAngleDegree(angular_z, linear_x, wheel_base) ==
  CASE angular_z = 0 -> 0
    [] angular_z = 10 /\ linear_x = 200 /\ wheel_base = 240 -> 6843
    [] angular_z = 10 /\ linear_x = 100 /\ wheel_base = 240 -> 13496
    [] angular_z = -20 /\ linear_x = 100 /\ wheel_base = 240 -> -25641
    [] angular_z = 30 /\ linear_x = 50 /\ wheel_base = 240 -> 55222

\* a sample once stored is kept: the later command is lost
AutoVelocity_first(msg) ==
  IF g_target_velocity_ui16 # 0
    THEN {g_target_velocity_ui16}
    ELSE ToUInt16(Trunc(msg.linear_x * 36, 100))

\* target_velocity = linear.x * 3.6, then *= 10.0, then stored in a uint16_t:
\* the values line 78 may store
AutoVelocity(msg) == ToUInt16(Trunc(msg.linear_x * 36, 100))

\* (angle + 8.0) * 10.0 * -1.0, stored in an int16_t: the values line 79 may
\* store
AutoSteering(msg) ==
  ToInt16(
    Trunc(-(10 * (computeTargetSteeringAngleDegree(msg.angular_z, msg.linear_x,
                                                   DefaultWheelBaseCm)
                 + 1000 * SteeringOffsetDeg)), 1000))

\* the command also switches autonomy on
twist_cmd_callback_engage(msg) ==
  /\ pc = "spin"
  /\ "twist_cmd" \notin spun
  /\ spun' = spun \cup {"twist_cmd"}
  /\ g_target_velocity_ui16' \in AutoVelocity(msg)
  /\ g_steering_angle_deg_i16' \in AutoSteering(msg)
  /\ g_automode' = TRUE
  /\ UNCHANGED <<g_mode, g_manual_target_velocity_ui16,
                 g_manual_steering_angle_deg_i16, g_shift, g_brake,
                 g_current_vel_kmph, g_terminate_thread,
                 brake, brake_guard, heart_beat, frame, pc, pc1,
                 pc2, fp, published>>

twist_cmd_callback(msg) ==
  /\ pc = "spin"
  /\ "twist_cmd" \notin spun
  /\ spun' = spun \cup {"twist_cmd"}
  /\ g_target_velocity_ui16' \in AutoVelocity(msg)
  /\ g_steering_angle_deg_i16' \in AutoSteering(msg)
  /\ UNCHANGED <<g_mode, manualVars, g_current_vel_kmph, g_terminate_thread,
                 brake, brake_guard, heart_beat, frame, pc, pc1,
                 pc2, fp, published>>

(* current_vel_callback: the display value. *)

current_vel_callback(msg) ==
  /\ pc = "spin"
  /\ "current_velocity" \notin spun
  /\ spun' = spun \cup {"current_velocity"}
  /\ g_current_vel_kmph' = msg.linear_x * 36
  /\ UNCHANGED <<g_mode, autoVars, manualVars, g_terminate_thread, brake,
                 brake_guard, heart_beat, frame, pc, pc1, pc2, fp,
                 published>>

----------------------------------------------------------------------------
(* current_joy_callback: the manual sample, the brake, the shift and the   *)
(* automode flag.                                                          *)

\* line 89: square, or either of axes 1 and 2 off centre
CancelsAutomode(msg) ==
  msg.buttons[0] = 1 \/ msg.axes[1] # 0 \/ msg.axes[2] # 0

\* lines 94-99 and 117, 120: 0, or 16 * r2 + 3 with r2 = (-axes[4] + 1) / 2
ManualVelocity(msg) ==
  ToUInt16(IF msg.buttons[1] = 1
             THEN Trunc(10 * (16 * (8 - msg.axes[4]) + 3 * 16), 16)
             ELSE 0)

\* lines 101-104 and 118, 121: ratio = 20 + 17 * l2 with l2 = (-axes[3] + 1) / 2,
\* angle = ratio * axes[0] + 8, stored as angle * 10 * -1
ManualSteering(msg) ==
  ToInt16(Trunc(-(10 * ((20 * 16 + 17 * (8 - msg.axes[3])) * msg.axes[0]
                        + SteeringOffsetDeg * 128)), 128))

\* the buttons tested in the opposite order
BrakeLevel_reversed(msg) ==
  IF msg.buttons[3] = 1 THEN 3
  ELSE IF msg.buttons[2] = 1 THEN 2
  ELSE IF msg.buttons[0] = 1 THEN 1
  ELSE 0

\* lines 106-112
BrakeLevel(msg) ==
  IF msg.buttons[0] = 1 THEN 1
  ELSE IF msg.buttons[2] = 1 THEN 2
  ELSE IF msg.buttons[3] = 1 THEN 3
  ELSE 0

\* the shift not reset when autonomy is resumed
ShiftAfter_noreset(msg) == ToUChar(msg.buttons[5])

\* lines 114 and 123-127
ShiftAfter(msg) ==
  IF msg.buttons[12] = 1 THEN 0 ELSE ToUChar(msg.buttons[5])

\* lines 89-92 and 123-127
AutomodeAfter(msg, automode) ==
  IF msg.buttons[12] = 1 THEN TRUE
  ELSE IF CancelsAutomode(msg) THEN FALSE
  ELSE automode

\* the start button also puts the mode back to drive
current_joy_callback_drive(msg) ==
  /\ pc = "spin"
  /\ "joy" \notin spun
  /\ spun' = spun \cup {"joy"}
  /\ g_automode' = AutomodeAfter(msg, g_automode)
  /\ g_brake' = BrakeLevel(msg)
  /\ g_shift' = ShiftAfter(msg)
  /\ g_manual_target_velocity_ui16' \in ManualVelocity(msg)
  /\ g_manual_steering_angle_deg_i16' \in ManualSteering(msg)
  /\ g_mode' = IF msg.buttons[12] = 1 THEN DriveMode ELSE g_mode
  /\ UNCHANGED <<autoVars, g_current_vel_kmph, g_terminate_thread,
                 brake, brake_guard, heart_beat, frame, pc, pc1,
                 pc2, fp, published>>

current_joy_callback(msg) ==
  /\ pc = "spin"
  /\ "joy" \notin spun
  /\ spun' = spun \cup {"joy"}
  /\ g_automode' = AutomodeAfter(msg, g_automode)
  /\ g_brake' = BrakeLevel(msg)
  /\ g_shift' = ShiftAfter(msg)
  /\ g_manual_target_velocity_ui16' \in ManualVelocity(msg)
  /\ g_manual_steering_angle_deg_i16' \in ManualSteering(msg)
  /\ UNCHANGED <<g_mode, autoVars, g_current_vel_kmph, g_terminate_thread,
                 brake, brake_guard, heart_beat, frame, pc, pc1,
                 pc2, fp, published>>

----------------------------------------------------------------------------
(* changeMode, thread t1.  g_terminate_thread is a plain bool written by   *)
(* main and read here without synchronisation: a read made after main has  *)
(* set it may still return false (changeMode stays enabled), or true       *)
(* (changeMode_return).                                                    *)

NoKey == "none"

\* the two keys exchanged
KeyMode_swapped(c, mode) ==
  IF c = " " THEN DriveMode
  ELSE IF c = "s" THEN EmergencyMode
  ELSE mode

\* lines 140-144
KeyMode(c, mode) ==
  IF c = " " THEN EmergencyMode
  ELSE IF c = "s" THEN DriveMode
  ELSE mode

\* one iteration of the loop; key = NoKey when kbhit() returns 0
changeMode(key) ==
  /\ pc # "aborted"
  /\ pc1 = "run"
  /\ g_mode' = IF key = NoKey THEN g_mode ELSE KeyMode(key, g_mode)
  /\ UNCHANGED <<autoVars, manualVars, g_current_vel_kmph,
                 g_terminate_thread, loopVars, pc1, readerVars, fp>>

changeMode_return ==
  /\ pc # "aborted"
  /\ pc1 = "run"
  /\ g_terminate_thread
  /\ pc1' = "done"
  /\ UNCHANGED <<g_mode, autoVars, manualVars, g_current_vel_kmph,
                 g_terminate_thread, loopVars, readerVars, fp>>

----------------------------------------------------------------------------
(* readCanData, thread t2.  A line is the sequence of its characters.      *)

IsSpace(ch) == ch \in {" ", "\t", "\n"}

RECURSIVE SplitFrom(_, _)
\* the tokens of the characters raw, cur being the token under construction
SplitFrom(raw, cur) ==
  IF raw = <<>>
    THEN IF cur = <<>> THEN <<>> ELSE <<cur>>
    ELSE IF IsSpace(Head(raw))
           THEN IF cur = <<>>
                  THEN SplitFrom(Tail(raw), <<>>)
                  ELSE <<cur>> \o SplitFrom(Tail(raw), <<>>)
           ELSE SplitFrom(Tail(raw), Append(cur, Head(raw)))

\* ymc::splitString: the whitespace-separated tokens of the line
splitString(raw) == SplitFrom(raw, <<>>)

IsDigit(ch) == ch \in {"0", "1", "2", "3", "4", "5", "6", "7", "8", "9"}

DigitValue(ch) ==
  CASE ch = "0" -> 0 [] ch = "1" -> 1 [] ch = "2" -> 2 [] ch = "3" -> 3
    [] ch = "4" -> 4 [] ch = "5" -> 5 [] ch = "6" -> 6 [] ch = "7" -> 7
    [] ch = "8" -> 8 [] ch = "9" -> 9

\* std::stoi(tok, nullptr, 10) is strtol: leading white space is skipped,
\* then an optional sign, then the leading decimal digits
\* the characters of isspace; the vertical tab has no escape in a string
VerticalTab == "\\v"
StoiSpaces == {" ", "\t", "\n", "\f", "\r", VerticalTab}

RECURSIVE StoiSkipSpaces(_)
\* tok without its leading white space
StoiSkipSpaces(tok) ==
  IF tok # <<>> /\ Head(tok) \in StoiSpaces
    THEN StoiSkipSpaces(Tail(tok))
    ELSE tok

StoiNegative(tok) ==
  StoiSkipSpaces(tok) # <<>> /\ Head(StoiSkipSpaces(tok)) = "-"
StoiDigits(tok) ==
  LET t == StoiSkipSpaces(tok)
  IN IF t # <<>> /\ Head(t) \in {"+", "-"} THEN Tail(t) ELSE t

RECURSIVE StoiParse(_, _, _)
\* the value of the leading digits, acc being the signed value so far, or
\* in_range FALSE once it leaves the range of int
StoiParse(digits, acc, negative) ==
  IF digits = <<>> \/ ~IsDigit(Head(digits))
    THEN [in_range |-> TRUE, value |-> acc]
    ELSE LET d == DigitValue(Head(digits))
             q == IntMax \div 10
             r == IntMax % 10
         IN IF negative
              THEN IF acc < -q \/ (acc = -q /\ d > r + 1)
                     THEN [in_range |-> FALSE, value |-> 0]
                     ELSE StoiParse(Tail(digits), 10 * acc - d, negative)
              ELSE IF acc > q \/ (acc = q /\ d > r)
                     THEN [in_range |-> FALSE, value |-> 0]
                     ELSE StoiParse(Tail(digits), 10 * acc + d, negative)

\* std::stoi(tok, nullptr, 10) throws: std::invalid_argument when no digit
\* follows the optional sign, std::out_of_range when the value is no int
StoiThrows(tok) ==
  \/ StoiDigits(tok) = <<>>
  \/ ~IsDigit(Head(StoiDigits(tok)))
  \/ ~StoiParse(StoiDigits(tok), 0, StoiNegative(tok)).in_range

\* std::stoi(tok, nullptr, 10) when it does not throw
stoi(tok) == StoiParse(StoiDigits(tok), 0, StoiNegative(tok)).value

\* identifiers ymc::translateCanData decodes, and what it can report
RecognizedIds == {200}
BusModes == {EmergencyMode, DriveMode}

\* the velocity a frame carries is read from its payload: tabulated for the
\* payloads of the lines below
DecodedVelocity(data) ==
  CASE data = << <<"0", "8">>, <<"2", "9">> >> -> 15
    [] data = << <<"0", "8">> >> -> 20
    [] OTHER -> 0

\* ymc::translateCanData(id, data, &g_mode): the results it may give, each the
\* returned velocity (publish FALSE for RET_NO_PUBLISH) and the mode it leaves
translateCanData(id, data, mode) ==
  IF id \notin RecognizedIds \/ data = <<>>
    THEN {[publish |-> FALSE, vel |-> 0, mode |-> mode]}
    ELSE {[publish |-> p, vel |-> IF p THEN DecodedVelocity(data) ELSE 0,
           mode |-> m] : p \in BOOLEAN, m \in {mode} \cup BusModes}

\* line 169 erases three elements of a shorter vector (undefined), line 171
\* throws on a missing, non-numeric or too large identifier token: the thread's
\* exception, or the fault, ends the process
LineAborts(parsed) ==
  \/ Len(parsed) < 3
  \/ StoiThrows(parsed[2])

\* the iteration runs to its end and the loop goes on
LineContinues(parsed) ==
  /\ Len(parsed) >= 3
  /\ ~StoiThrows(parsed[2])

\* line 169: the tokens after the first three, of a line with three or more
PayloadOf(parsed) == SubSeq(parsed, 4, Len(parsed))

\* line 169 on a vector of fewer than three tokens, when it does not fault:
\* the vector is left with a size of 2^64 - 1 and the decoder reads what lies
\* in memory, which may be any payload
CorruptPayloads ==
  { << <<"0", "8">>, <<"2", "9">> >>, << <<"0", "8">> >>, << <<"?">> >> }

\* the process ends, pub being the messages published by then
ProcessEndsWith(pub) ==
  /\ pc' = "aborted"
  /\ pc1' = "aborted"
  /\ pc2' = "aborted"
  /\ g_mode' = DefaultMode
  /\ g_target_velocity_ui16' = 0
  /\ g_steering_angle_deg_i16' = 0
  /\ g_manual_target_velocity_ui16' = 0
  /\ g_manual_steering_angle_deg_i16' = 0
  /\ g_current_vel_kmph' = 0
  /\ g_terminate_thread' = FALSE
  /\ g_automode' = FALSE
  /\ g_shift' = 0
  /\ g_brake' = 0
  /\ brake' = 0
  /\ brake_guard' = FALSE
  /\ heart_beat' = 0
  /\ spun' = {}
  /\ published' = pub
  /\ UNCHANGED <<frame, fp>>

\* an uncaught exception in a thread (std::terminate) or a fault ends the
\* process: its memory is gone, the frame on the bus and the messages
\* published stay
ProcessEnds == ProcessEndsWith(published)

\* the result of the decoder published without the test of line 173
readCanData_always(line) ==
  /\ pc # "aborted"
  /\ pc2 = "fgets"
  /\ fp = "open"
  /\ UNCHANGED <<autoVars, manualVars, g_current_vel_kmph, g_terminate_thread,
                 loopVars, pc1, pc2, fp>>
  /\ IF line = <<>>
       THEN UNCHANGED <<g_mode, published>>
       ELSE LET parsed == splitString(line) IN
         /\ LineContinues(parsed)
         /\ \E r \in translateCanData(stoi(parsed[2]), PayloadOf(parsed), g_mode) :
              /\ g_mode' = r.mode
              /\ published' =
                   Append(published, [frame_id |-> "base_link", x |-> r.vel])

\* one iteration of the loop on a line fgets returned, the flag read as false;
\* line 160 skips the body for an empty string
readCanData(line) ==
  /\ pc # "aborted"
  /\ pc2 = "fgets"
  /\ fp = "open"
  /\ UNCHANGED <<autoVars, manualVars, g_current_vel_kmph, g_terminate_thread,
                 loopVars, pc1, pc2, fp>>
  /\ IF line = <<>>
       THEN UNCHANGED <<g_mode, published>>
       ELSE LET parsed == splitString(line) IN
         /\ LineContinues(parsed)
         /\ \E r \in translateCanData(stoi(parsed[2]), PayloadOf(parsed), g_mode) :
              /\ g_mode' = r.mode
              /\ published' =
                   IF r.publish
                     THEN Append(published, [frame_id |-> "base_link", x |-> r.vel])
                     ELSE published

\* the process ends in this iteration: by the fault of line 169 or the
\* exception of line 171, nothing published; or, for two tokens the second of
\* which is a number, after line 169 returned, the decoder was given the
\* corrupt vector and its result was published (lines 172-180), by the fault
\* that follows at the end of the iteration
readCanData_abort(line) ==
  /\ pc # "aborted"
  /\ pc2 = "fgets"
  /\ fp = "open"
  /\ line # <<>>
  /\ LET parsed == splitString(line) IN
       /\ LineAborts(parsed)
       /\ \/ ProcessEnds
          \/ /\ Len(parsed) = 2
             /\ ~StoiThrows(parsed[2])
             /\ \E data \in CorruptPayloads :
                  \E r \in translateCanData(stoi(parsed[2]), data, g_mode) :
                    ProcessEndsWith(
                      IF r.publish
                        THEN Append(published,
                                    [frame_id |-> "base_link", x |-> r.vel])
                        ELSE published)

\* fgets returned a line and the flag is read as true: the loop ends
readCanData_terminate ==
  /\ pc # "aborted"
  /\ pc2 = "fgets"
  /\ fp = "open"
  /\ g_terminate_thread
  /\ pc2' = "done"
  /\ UNCHANGED <<g_mode, autoVars, manualVars, g_current_vel_kmph,
                 g_terminate_thread, loopVars, pc1, fp, published>>

\* fgets returned NULL: the candump child has exited and the pipe is at its end
readCanData_eof ==
  /\ pc # "aborted"
  /\ pc2 = "fgets"
  /\ fp = "open"
  /\ pc2' = "done"
  /\ UNCHANGED <<g_mode, autoVars, manualVars, g_current_vel_kmph,
                 g_terminate_thread, loopVars, pc1, fp, published>>

\* fgets on the null pointer an unchecked popen returned (line 214): undefined,
\* the C library faults on the stream or reports no line
readCanData_null ==
  /\ pc # "aborted"
  /\ pc2 = "fgets"
  /\ fp = "null"
  /\ \/ ProcessEnds
     \/ /\ pc2' = "done"
        /\ UNCHANGED <<g_mode, autoVars, manualVars, g_current_vel_kmph,
                       g_terminate_thread, loopVars, pc1, fp, published>>

----------------------------------------------------------------------------
(* main: the control loop and the shutdown.                                *)

\* lines 214-218: popen returns the pipe or NULL, and the two threads are
\* created on whatever it returned
PopenResults == {"open", "null"}
main_popen(result) ==
  /\ pc = "popen"
  /\ fp' = result
  /\ pc' = "loop"
  /\ pc1' = "run"
  /\ pc2' = "fgets"
  /\ UNCHANGED <<g_mode, autoVars, manualVars, g_current_vel_kmph,
                 g_terminate_thread, brake, brake_guard, heart_beat, frame,
                 spun, published>>

\* the measured velocity sent back as the manual target
SelectVelocity_feedback ==
  IF g_automode THEN g_target_velocity_ui16 ELSE g_current_vel_kmph

\* line 228
SelectVelocity ==
  IF g_automode THEN g_target_velocity_ui16 ELSE g_manual_target_velocity_ui16

\* the steering taken from the manual sample whatever the flag
SelectSteering_manual == g_manual_steering_angle_deg_i16

\* line 229
SelectSteering ==
  IF g_automode THEN g_steering_angle_deg_i16 ELSE g_manual_steering_angle_deg_i16

\* line 230: a static local is initialised the first time the line is reached
StaticBrake == IF brake_guard THEN brake ELSE g_brake

\* the counter declared int: it leaves the range of a byte
NextHeartBeat_int(hb) == hb + 1

\* line 274 on an unsigned char
NextHeartBeat(hb) == (hb + 1) % HeartBeatModulus

\* lines 222-268: ros::ok() returns true, the frame is built and sent
main_loop_send(maxTicks) ==
  /\ pc = "loop"
  /\ heart_beat < maxTicks
  /\ brake' = StaticBrake
  /\ brake_guard' = TRUE
  /\ frame' = << [mode |-> ToUChar(g_mode),
                  shift |-> g_shift,
                  velocity |-> SelectVelocity,
                  steering |-> SelectSteering,
                  brake |-> StaticBrake,
                  heart_beat |-> heart_beat] >>
  /\ pc' = "spin"
  /\ spun' = {}
  /\ UNCHANGED <<g_mode, autoVars, manualVars, g_current_vel_kmph,
                 g_terminate_thread, heart_beat, pc1, readerVars, fp>>

\* lines 271-274: spinOnce returns, the loop sleeps, the heartbeat advances
main_loop_end ==
  /\ pc = "spin"
  /\ heart_beat' = NextHeartBeat(heart_beat)
  /\ pc' = "loop"
  /\ spun' = {}
  /\ UNCHANGED <<g_mode, autoVars, manualVars, g_current_vel_kmph,
                 g_terminate_thread, brake, brake_guard, frame, pc1,
                 readerVars, fp>>

\* lines 222 and 277: ros::ok() returns false (the node is being shut down),
\* the loop ends and the flag is set
main_terminate ==
  /\ pc = "loop"
  /\ g_terminate_thread' = TRUE
  /\ pc' = "join_t1"
  /\ UNCHANGED <<g_mode, autoVars, manualVars, g_current_vel_kmph, brake,
                 brake_guard, heart_beat, frame, spun, pc1,
                 readerVars, fp>>

\* line 278
main_join_t1 ==
  /\ pc = "join_t1"
  /\ pc1 = "done"
  /\ pc' = "join_t2"
  /\ UNCHANGED <<g_mode, autoVars, manualVars, g_current_vel_kmph,
                 g_terminate_thread, brake, brake_guard, heart_beat, frame,
                 spun, pc1, readerVars, fp>>

\* the reader not waited for
main_join_t2_nowait ==
  /\ pc = "join_t2"
  /\ pc' = "pclose"
  /\ UNCHANGED <<g_mode, autoVars, manualVars, g_current_vel_kmph,
                 g_terminate_thread, brake, brake_guard, heart_beat, frame,
                 spun, pc1, readerVars, fp>>

\* line 279
main_join_t2 ==
  /\ pc = "join_t2"
  /\ pc2 = "done"
  /\ pc' = "pclose"
  /\ UNCHANGED <<g_mode, autoVars, manualVars, g_current_vel_kmph,
                 g_terminate_thread, brake, brake_guard, heart_beat, frame,
                 spun, pc1, readerVars, fp>>

\* lines 281-283
\* pclose on the null pointer of a failed popen is undefined: the C library
\* faults on the stream, or returns an error and main returns
main_pclose ==
  /\ pc = "pclose"
  /\ IF fp = "null"
       THEN \/ ProcessEnds
            \/ /\ pc' = "done"
               /\ UNCHANGED <<g_mode, autoVars, manualVars, g_current_vel_kmph,
                              g_terminate_thread, brake, brake_guard,
                              heart_beat, frame, spun, pc1, readerVars, fp>>
       ELSE /\ fp' = "closed"
            /\ pc' = "done"
            /\ UNCHANGED <<g_mode, autoVars, manualVars, g_current_vel_kmph,
                           g_terminate_thread, brake, brake_guard, heart_beat,
                           frame, spun, pc1, readerVars>>

----------------------------------------------------------------------------
(* The inputs.                                                             *)

ButtonIdx == {0, 1, 2, 3, 5, 12}

Buttons(b0, b1, b2, b3, b5, b12) ==
  (0 :> b0) @@ (1 :> b1) @@ (2 :> b2) @@ (3 :> b3) @@ (5 :> b5) @@ (12 :> b12)

Axes(a0, a1, a2, a3, a4) ==
  (0 :> a0) @@ (1 :> a1) @@ (2 :> a2) @@ (3 :> a3) @@ (4 :> a4)

\* sensor_msgs/Joy messages: every combination of the given button and axis
\* values
JoySet(B0, B1, B2, B3, B5, B12, A0, A1, A2, A3, A4) ==
  { [buttons |-> Buttons(b0, b1, b2, b3, b5, b12),
     axes |-> Axes(a0, a1, a2, a3, a4)] :
      b0 \in B0, b1 \in B1, b2 \in B2, b3 \in B3, b5 \in B5, b12 \in B12,
      a0 \in A0, a1 \in A1, a2 \in A2, a3 \in A3, a4 \in A4 }

Bit == {0, 1}

\* the joystick of the general specification: cross held, square, R1 and
\* start, the stick at the centre or 3/8 to the left, axis 1 at rest or
\* pushed, the triggers released; and one event with axis 2 pushed
JoyMsgs ==
  JoySet(Bit, {1}, {0}, {0}, Bit, Bit, {0, 3}, {0, -8}, {0}, {8}, {8})
    \cup JoySet({0}, {1}, {0}, {0}, {0}, {0}, {0}, {0}, {8}, {8}, {8})

\* the joystick of the button study: every button but cross, and the stick
JoyMsgsButtons ==
  JoySet(Bit, {0}, Bit, Bit, Bit, Bit, {0, 3}, {0}, {0}, {8}, {8})

\* the joystick of the heartbeat study: cross held, throttle released
JoyMsgsHeartbeat == JoySet({0}, {1}, {0}, {0}, {0}, {0}, {0}, {0}, {0}, {8}, {8})

\* the joystick of the telemetry study: cross held, start pressed or not
JoyMsgsResume ==
  JoySet({0}, {1}, {0}, {0}, {0}, Bit, {0}, {0}, {0}, {8}, {8})

\* the joystick of the study of the two sources: cross, start, the stick and
\* axis 1
JoyMsgsSources ==
  JoySet({0}, Bit, {0}, {0}, {0}, Bit, {0, 3}, {0, -8}, {0}, {8}, {8})

\* the joystick of the encoding study: the stick at the centre, 1/8 and 3/8
\* to the left, the sensitivity trigger released (1.0) or half pressed (0.0);
\* and one event of a device that reports axis 4 at 2.0
JoyMsgsEncode ==
  JoySet({0}, {1}, {0}, {0}, {0}, {0}, {0, 1, 3}, {0}, {0}, {0, 8}, {8})
    \cup JoySet({0}, {1}, {0}, {0}, {0}, {0}, {0}, {0}, {0}, {8}, {16})

\* geometry_msgs/TwistStamped commands on twist_cmd
TwistMsgs == { [linear_x |-> 200, angular_z |-> 10],
               [linear_x |-> 100, angular_z |-> -20] }
TwistMsgsOne == { [linear_x |-> 100, angular_z |-> 0] }

\* commands of the encoding study: 0.55 m/s is 19.8 in tenths of km/h, and
\* -1.0 m/s is a reverse command
TwistMsgsEncode == { [linear_x |-> 55, angular_z |-> 0],
                     [linear_x |-> -100, angular_z |-> 0],
                     [linear_x |-> 200, angular_z |-> 10],
                     [linear_x |-> 100, angular_z |-> 10] }

\* geometry_msgs/TwistStamped messages on current_velocity
VelMsgs == { [linear_x |-> 150] }
VelMsgsZero == { [linear_x |-> 0] }

\* keys read by changeMode
Keys == {" ", "s", "x"}
KeysHeartbeat == {" "}

\* lines of the candump pipe
GoodLine ==
  <<"c", "a", "n", "0", " ", " ", "2", "0", "0", " ", " ", " ", "[", "2", "]",
    " ", " ", "0", "8", " ", "2", "9", "\n">>
OtherIdLine ==
  <<"c", "a", "n", "0", " ", " ", "7", " ", " ", " ", "[", "1", "]",
    " ", " ", "0", "8", "\n">>
ShortLine == <<"c", "a", "n", "0", " ", " ", "2", "0", "0", "\n">>
BadIdLine ==
  <<"c", "a", "n", "0", " ", " ", "Z", "Z", " ", " ", " ", "[", "1", "]",
    " ", " ", "0", "8", "\n">>
Lines == {GoodLine, OtherIdLine, ShortLine, BadIdLine}

\* lines of the telemetry study: signed identifiers, an identifier that is no
\* int, one after a carriage return, and the empty string of a line that starts with a NUL byte
NegativeIdLine ==
  <<"c", "a", "n", "0", " ", " ", "-", "5", " ", " ", " ", "[", "1", "]",
    " ", " ", "0", "8", "\n">>
PlusIdLine ==
  <<"c", "a", "n", "0", " ", " ", "+", "2", "0", "0", " ", " ", " ", "[", "1",
    "]", " ", " ", "0", "8", "\n">>
HugeIdLine ==
  <<"c", "a", "n", "0", " ", " ", "2", "1", "4", "7", "4", "8", "3", "6", "4",
    "8", " ", " ", " ", "[", "1", "]", " ", " ", "0", "8", "\n">>
CarriageReturnIdLine ==
  <<"c", "a", "n", "0", " ", " ", "\r", "2", "0", "0", " ", " ", " ", "[", "1",
    "]", " ", " ", "0", "8", "\n">>
EmptyLine == <<>>
LinesTelemetry ==
  Lines \cup {NegativeIdLine, PlusIdLine, HugeIdLine, CarriageReturnIdLine,
              EmptyLine}
LinesHeartbeat == {GoodLine, ShortLine}

----------------------------------------------------------------------------
(* The specifications.                                                     *)

Init ==
  /\ g_mode = DefaultMode
  /\ g_target_velocity_ui16 = 0
  /\ g_steering_angle_deg_i16 = 0
  /\ g_manual_target_velocity_ui16 = 0
  /\ g_manual_steering_angle_deg_i16 = 0
  /\ g_current_vel_kmph = 0
  /\ g_terminate_thread = FALSE
  /\ g_automode = FALSE
  /\ g_shift = 0
  /\ g_brake = 0
  /\ brake = 0
  /\ brake_guard = FALSE
  /\ heart_beat = 0
  /\ frame = <<>>
  /\ pc = "loop"
  /\ spun = {}
  /\ pc1 = "run"
  /\ pc2 = "fgets"
  /\ fp = "open"
  /\ published = <<>>

MainStep(maxTicks) ==
  \/ main_loop_send(maxTicks)
  \/ main_loop_end
  \/ main_terminate
  \/ main_join_t1
  \/ main_join_t2
  \/ main_pclose

\* candump writes a further line while fewer than maxPublished messages were
\* published; after that the bus is silent and fgets blocks, or meets the end
PipeDelivers(maxPublished) == Len(published) < maxPublished

NextOver(joy, twist, vel, keys, lines, maxTicks, maxPublished) ==
  \/ \E msg \in twist : twist_cmd_callback(msg)
  \/ \E msg \in vel : current_vel_callback(msg)
  \/ \E msg \in joy : current_joy_callback(msg)
  \/ \E key \in keys \cup {NoKey} : changeMode(key)
  \/ changeMode_return
  \/ \E line \in lines : PipeDelivers(maxPublished) /\ readCanData(line)
  \/ \E line \in lines : PipeDelivers(maxPublished) /\ readCanData_abort(line)
  \/ readCanData_terminate
  \/ readCanData_eof
  \/ MainStep(maxTicks)

\* the general specification
Next ==
  NextOver(JoyMsgs, TwistMsgs, VelMsgs, Keys, Lines, MaxTicks,
           MaxPublishedAside)
Spec == Init /\ [][Next]_vars

\* every button combination of the joystick
NextButtons ==
  NextOver(JoyMsgsButtons, TwistMsgsOne, VelMsgsZero, KeysHeartbeat,
           LinesHeartbeat, MaxTicksButtons, MaxPublishedAside)
SpecButtons == Init /\ [][NextButtons]_vars

\* the control loop running on through the wrap of the heartbeat
NextLongRun ==
  NextOver(JoyMsgsHeartbeat, TwistMsgsOne, VelMsgsZero, KeysHeartbeat,
           LinesHeartbeat, MaxTicksHeartbeat, MaxPublished)
SpecHeartbeat == Init /\ [][NextLongRun]_vars

\* the scheduler runs every thread that can take a step, and a thread that
\* polls the flag comes to see it: changeMode returns, and readCanData does
\* not go on for ever processing lines as if the flag were not set.  The
\* keyboard, the subscribers and the candump pipe (a further line, its end)
\* are the environment's: nothing says that a line ever comes.
ReaderIteration == \E line \in Lines : readCanData(line)
Fairness ==
  /\ WF_vars(MainStep(MaxTicks))
  /\ WF_vars(changeMode_return)
  /\ <>[][~(g_terminate_thread /\ ReaderIteration)]_vars
FairSpec == Spec /\ Fairness

\* the encoding of the commands into the fields of the frame
NextEncode ==
  NextOver(JoyMsgsEncode, TwistMsgsEncode, VelMsgsZero, KeysHeartbeat,
           LinesHeartbeat, MaxTicksButtons, MaxPublished)
SpecEncode == Init /\ [][NextEncode]_vars

\* the mode, the telemetry lines and the shutdown
NextTelemetry ==
  NextOver(JoyMsgsResume, TwistMsgsOne, VelMsgs, Keys, LinesTelemetry,
           MaxTicksButtons, MaxPublished)
SpecTelemetry == Init /\ [][NextTelemetry]_vars

\* the publication of the decoded velocities: every line of the telemetry
\* study, one joystick event, one command and one key
NextPublication ==
  NextOver(JoyMsgsHeartbeat, TwistMsgsOne, VelMsgsZero, KeysHeartbeat,
           LinesTelemetry, MaxTicksButtons, MaxPublished)
SpecPublication == Init /\ [][NextPublication]_vars

\* the two command sources and the velocity feedback
NextSources ==
  NextOver(JoyMsgsSources, TwistMsgs, VelMsgs, KeysHeartbeat, LinesHeartbeat,
           MaxTicksButtons, MaxPublished)
SpecSources == Init /\ [][NextSources]_vars

\* the start of main, before popen: no pipe yet and no thread
InitStartup ==
  /\ g_mode = DefaultMode
  /\ g_target_velocity_ui16 = 0
  /\ g_steering_angle_deg_i16 = 0
  /\ g_manual_target_velocity_ui16 = 0
  /\ g_manual_steering_angle_deg_i16 = 0
  /\ g_current_vel_kmph = 0
  /\ g_terminate_thread = FALSE
  /\ g_automode = FALSE
  /\ g_shift = 0
  /\ g_brake = 0
  /\ brake = 0
  /\ brake_guard = FALSE
  /\ heart_beat = 0
  /\ frame = <<>>
  /\ pc = "popen"
  /\ spun = {}
  /\ pc1 = "unstarted"
  /\ pc2 = "unstarted"
  /\ fp = "unset"
  /\ published = <<>>

\* the node from popen on, the pipe acquired or not
NextStartup ==
  \/ \E result \in PopenResults : main_popen(result)
  \/ readCanData_null
  \/ NextOver(JoyMsgsHeartbeat, TwistMsgsOne, VelMsgsZero, KeysHeartbeat,
              LinesHeartbeat, MaxTicksButtons, MaxPublished)
SpecStartup == InitStartup /\ [][NextStartup]_vars

----------------------------------------------------------------------------
(* Steps of the run that the properties speak of.                          *)

\* the control loop sends a frame
SendStep == pc = "loop" /\ pc' = "spin"

\* spinOnce runs current_joy_callback
JoyStep == pc = "spin" /\ pc' = "spin" /\ "joy" \notin spun /\ "joy" \in spun'

\* spinOnce runs twist_cmd_callback
TwistStep ==
  pc = "spin" /\ pc' = "spin" /\ "twist_cmd" \notin spun /\ "twist_cmd" \in spun'

\* spinOnce runs current_vel_callback
VelStep ==
  /\ pc = "spin" /\ pc' = "spin"
  /\ "current_velocity" \notin spun /\ "current_velocity" \in spun'

\* readCanData runs one iteration on a line of the pipe
ReaderStep == \E line \in LinesTelemetry : readCanData(line)

\* changeMode runs one iteration on the key c
KeyStep(c) == changeMode(c)

----------------------------------------------------------------------------
(* C1.  In the sequence of frames sent by the control loop, the heartbeat  *)
(* of every frame is the heartbeat of the frame before it plus one modulo  *)
(* 256 (255 is followed by 0), whatever callbacks, key presses and         *)
(* telemetry lines come between the two; the first frame carries 0.        *)
C1_HeartbeatIncrements ==
  [][SendStep =>
       frame'[1].heart_beat =
         IF frame = <<>> THEN 0 ELSE (frame[1].heart_beat + 1) % 256]_vars

\* a frame with heartbeat 0 that carries a manual velocity: the first frame is
\* sent before any callback, so this one is sent after the counter wrapped
C1_Witness ==
  /\ frame # <<>>
  /\ frame[1].heart_beat = 0
  /\ frame[1].velocity # 0

(* C2.  The velocity and steering of every frame sent are the pair of the  *)
(* autonomous sample if g_automode holds when the frame is built and the   *)
(* pair of the manual sample otherwise, and each stored pair is the pair   *)
(* of one command (or the initial one): never fields of two samples.       *)
C2_AutoPairs ==
  {<<0, 0>>} \cup UNION { AutoVelocity(m) \X AutoSteering(m) : m \in TwistMsgs }
C2_ManualPairs ==
  {<<0, 0>>} \cup UNION { ManualVelocity(m) \X ManualSteering(m) : m \in JoyMsgs }
C2_ArbitrationSelectsOneSample ==
  /\ [](<<g_target_velocity_ui16, g_steering_angle_deg_i16>> \in C2_AutoPairs)
  /\ [](<<g_manual_target_velocity_ui16, g_manual_steering_angle_deg_i16>>
          \in C2_ManualPairs)
  /\ [][SendStep =>
          /\ g_automode =>
               /\ frame'[1].velocity = g_target_velocity_ui16
               /\ frame'[1].steering = g_steering_angle_deg_i16
          /\ ~g_automode =>
               /\ frame'[1].velocity = g_manual_target_velocity_ui16
               /\ frame'[1].steering = g_manual_steering_angle_deg_i16]_vars

\* a frame carrying an autonomous command while a manual sample with another
\* velocity and another steering is stored
C2_Witness ==
  /\ frame # <<>>
  /\ pc = "spin"
  /\ g_automode
  /\ <<frame[1].velocity, frame[1].steering>> \in C2_AutoPairs \ {<<0, 0>>}
  /\ g_manual_target_velocity_ui16 # 0
  /\ g_manual_target_velocity_ui16 # frame[1].velocity
  /\ g_manual_steering_angle_deg_i16 # frame[1].steering
  /\ spun = {}

(* C3.  The brake byte of every frame sent is the brake level of the       *)
(* manual sample current when the frame is built.                          *)
C3_BrakeFollowsManualInput ==
  [][SendStep => frame'[1].brake = g_brake]_vars

(* C4.  current_joy_callback selects the brake level by the priority       *)
(* button 0 > button 2 > button 3: 1 if button 0 is pressed, else 2 if     *)
(* button 2 is, else 3 if button 3 is, else 0, whatever the level before.  *)
C4_BrakePriority ==
  [][JoyStep =>
       \A m \in JoyMsgsButtons :
         current_joy_callback(m) =>
           /\ m.buttons[0] = 1 => g_brake' = 1
           /\ m.buttons[0] = 0 /\ m.buttons[2] = 1 => g_brake' = 2
           /\ m.buttons[0] = 0 /\ m.buttons[2] = 0 /\ m.buttons[3] = 1
                => g_brake' = 3
           /\ m.buttons[0] = 0 /\ m.buttons[2] = 0 /\ m.buttons[3] = 0
                => g_brake' = 0]_vars

\* the joystick event of the second spinOnce has selected level 3
C4_Witness ==
  /\ pc = "spin"
  /\ "joy" \in spun
  /\ heart_beat = 1
  /\ g_brake = 3

(* C5.  After current_joy_callback has processed an event with button 0    *)
(* pressed, g_automode is false.                                           *)
C5_EmergencyButtonClearsAutomode ==
  [][JoyStep =>
       \A m \in JoyMsgsButtons :
         (current_joy_callback(m) /\ m.buttons[0] = 1) => ~g_automode']_vars

(* C6.  After current_joy_callback has processed an event with a non-zero  *)
(* steering axis (axis 0) or with button 2 or 3 pressed, and button 12 not *)
(* pressed, g_automode is false.                                           *)
C6_ManualInputClearsAutomode ==
  [][JoyStep =>
       \A m \in JoyMsgsButtons :
         ( /\ current_joy_callback(m)
           /\ m.buttons[12] = 0
           /\ (m.axes[0] # 0 \/ m.buttons[2] = 1 \/ m.buttons[3] = 1) )
         => ~g_automode']_vars

(* C7.  After current_joy_callback has processed an event with button 12   *)
(* pressed, g_automode is true and g_shift is 0, whatever button 5 is; an  *)
(* event without button 12 never takes g_automode from false to true.      *)
C7_ResumeSetsAutomodeAndNeutral ==
  [][JoyStep =>
       \A m \in JoyMsgsButtons :
         current_joy_callback(m) =>
           /\ m.buttons[12] = 1 => (g_automode' /\ g_shift' = 0)
           /\ (m.buttons[12] = 0 /\ ~g_automode) => ~g_automode']_vars

\* the first joystick event of the run has switched autonomy on
C7_Witness ==
  /\ pc = "spin"
  /\ "joy" \in spun
  /\ heart_beat = 0
  /\ g_automode
  /\ g_shift = 0

(* C8.  While g_automode is true the shift byte of the frames sent stays   *)
(* at the neutral value 0 set when autonomy was resumed: no manual event   *)
(* that leaves g_automode true changes it.                                 *)
C8_ShiftNeutralInAutomode ==
  [][(SendStep /\ g_automode) => frame'[1].shift = 0]_vars

(* C9.  changeMode sets g_mode to 3 on the space key and to 8 on 's' and   *)
(* leaves it on any other key, and every frame carries in its mode byte    *)
(* the value g_mode has when the frame is built: the frame built next      *)
(* after a key press carries the mode of that key, unless the mode is      *)
(* written again in between.                                               *)
C9_KeyModeReachesNextFrame ==
  /\ [][\A c \in Keys :
          KeyStep(c) =>
            g_mode' = (CASE c = " " -> 3 [] c = "s" -> 8 [] OTHER -> g_mode)]_vars
  /\ [][SendStep => frame'[1].mode = g_mode % 256]_vars

\* the second frame of the run carries the emergency mode
C9_Witness ==
  /\ pc = "spin"
  /\ frame # <<>>
  /\ frame[1].heart_beat = 1
  /\ frame[1].mode = 3
  /\ g_mode = 3
  /\ published = <<>>

(* C10.  Once main has set g_terminate_thread, both threads leave their    *)
(* loops, both joins return and main reaches pclose, also when the candump *)
(* pipe delivers no further line and no end of stream.  (A run that the    *)
(* reader's crash ends is left aside.)                                     *)
C10_ShutdownTerminates ==
  g_terminate_thread ~> (pc \in {"pclose", "done", "aborted"})

(* C11.  A line of the pipe with fewer than 3 tokens, or whose second       *)
(* token is not a number (no digit after the optional sign, or no int), is *)
(* dropped: readCanData publishes nothing for it, the process does not     *)
(* end, and the reader is back at fgets for the following lines.           *)
C11_Malformed(line) ==
  \/ Len(splitString(line)) < 3
  \/ StoiThrows(splitString(line)[2])
C11_MalformedLineDropped ==
  [][\A line \in LinesTelemetry :
       ( /\ C11_Malformed(line)
         /\ (readCanData(line) \/ readCanData_abort(line)) )
       => /\ pc' # "aborted"
          /\ pc2' = "fgets"
          /\ published' = published]_vars

(* C12.  When popen fails (the pipe is the null pointer), main does not     *)
(* enter the control loop, sends no frame, and starts no readCanData       *)
(* thread on the absent pipe.                                              *)
C12_AcquireFailureFailsFast ==
  fp = "null" =>
    /\ pc \notin {"loop", "spin"}
    /\ frame = <<>>
    /\ pc2 = "unstarted"

(* C13.  The velocity twist_cmd_callback stores is the commanded speed in  *)
(* tenths of km/h rounded to the nearest integer: round(v * 3.6 * 10) for  *)
(* a command of v m/s (v >= 0, in steps of 0.01 m/s); 2.0 m/s gives 72.    *)
C13_RoundDiv(num, den) == (2 * num + den) \div (2 * den)
C13_VelocityRoundedToNearest ==
  [][\A m \in TwistMsgsEncode :
       (m.linear_x >= 0 /\ twist_cmd_callback(m)) =>
         g_target_velocity_ui16' = C13_RoundDiv(m.linear_x * 36, 100)]_vars

(* C14.  The steering stored for a command is -round(10 * (angle + 8.0)):  *)
(* on the autonomous path angle is the computed steering angle, on the     *)
(* manual path it is (20 + 17 * l2) * axes[0] with l2 = (1 - axes[3]) / 2. *)
C14_RoundDiv(num, den) == (2 * num + den) \div (2 * den)
C14_SteeringNegatedOffsetRounded ==
  /\ [][\A m \in TwistMsgsEncode :
          twist_cmd_callback(m) =>
            g_steering_angle_deg_i16' =
              -C14_RoundDiv(10 * (computeTargetSteeringAngleDegree(
                                    m.angular_z, m.linear_x, 240) + 8000),
                            1000)]_vars
  /\ [][\A m \in JoyMsgsEncode :
          current_joy_callback(m) =>
            g_manual_steering_angle_deg_i16' =
              -C14_RoundDiv(10 * ((320 + 17 * (8 - m.axes[3])) * m.axes[0]
                                  + 1024), 128)]_vars

(* C15.  g_mode is written only by a key press in changeMode or by a joy   *)
(* event with button 12: a twist_cmd command, a current_velocity message, *)
(* a joy event without button 12 and a telemetry line in readCanData leave *)
(* it unchanged.  (The end of the process is left aside.)                  *)
C15_ModeWrittenOnlyByKeys ==
  [][(g_mode' # g_mode /\ pc' # "aborted") =>
       \/ \E c \in Keys : KeyStep(c)
       \/ \E m \in JoyMsgsResume :
            m.buttons[12] = 1 /\ current_joy_callback(m)]_vars

(* C15, amended.  g_mode is written only by a key press in changeMode or   *)
(* by the decoder that readCanData hands &g_mode to: every callback, the   *)
(* joy event with button 12 included, and the control loop leave it        *)
(* unchanged, so the emergency mode set by the operator stays until the    *)
(* next key press or the next telemetry line.                              *)
C15_ModeWrittenByKeysAndDecoder ==
  /\ [][(g_mode' # g_mode /\ pc' # "aborted") =>
          \/ \E c \in Keys : KeyStep(c)
          \/ ReaderStep]_vars
  /\ [][(TwistStep \/ VelStep \/ JoyStep \/ SendStep) => g_mode' = g_mode]_vars

\* the second frame carries the emergency mode after a command, a velocity
\* message, a joy event with button 12 and a telemetry line were processed
C15_Witness ==
  /\ pc = "spin"
  /\ frame # <<>>
  /\ frame[1].heart_beat = 1
  /\ frame[1].mode = 3
  /\ g_mode = 3
  /\ g_target_velocity_ui16 # 0
  /\ g_current_vel_kmph # 0
  /\ g_automode
  /\ published # <<>>

(* C16.  For every line it processes readCanData hands the decoder the     *)
(* second token as the identifier and the tokens after the first three as  *)
(* the payload, and publishes exactly one message when the decoder returns *)
(* a velocity: labelled "base_link", carrying the velocity of that         *)
(* payload, and appended behind the messages of the earlier lines, which   *)
(* stay as they were, so that the messages are in the order of the lines.  *)
(* It publishes nothing when the decoder returns RET_NO_PUBLISH, and       *)
(* nothing for an empty string.  An iteration that ends the process        *)
(* publishes nothing, or, for a line of two tokens whose decoder was given *)
(* the corrupt vector, the one message of the velocity it returned.        *)
C16_OnePublishPerDecodedLine ==
  /\ [][\A line \in LinesTelemetry :
          readCanData(line) =>
            LET toks == IF line = <<>> THEN <<>> ELSE splitString(line)
                results ==
                  IF line = <<>>
                    THEN {}
                    ELSE translateCanData(stoi(toks[2]),
                                          SubSeq(toks, 4, Len(toks)), g_mode)
            IN \/ /\ published' = published
                  /\ line = <<>> \/ \E r \in results : ~r.publish
               \/ /\ \E r \in results : r.publish
                  /\ Len(published') = Len(published) + 1
                  /\ SubSeq(published', 1, Len(published)) = published
                  /\ published'[Len(published')] =
                       [frame_id |-> "base_link",
                        x |-> DecodedVelocity(SubSeq(toks, 4, Len(toks)))]]_vars
  /\ [][\A line \in LinesTelemetry :
          readCanData_abort(line) =>
            \/ published' = published
            \/ /\ Len(splitString(line)) = 2
               /\ \E data \in CorruptPayloads :
                    \E r \in translateCanData(stoi(splitString(line)[2]),
                                              data, g_mode) :
                      /\ r.publish
                      /\ published' =
                           Append(published,
                                  [frame_id |-> "base_link", x |-> r.vel])]_vars

\* two lines with different payloads were decoded, and their two messages
\* are there in the order of the lines; the reader is back at fgets
C16_Witness ==
  /\ pc2 = "fgets"
  /\ published = << [frame_id |-> "base_link", x |-> 15],
                    [frame_id |-> "base_link", x |-> 20] >>

(* C17.  current_vel_callback changes only g_current_vel_kmph: the two     *)
(* samples, g_automode, g_mode, the shift, the brake and the heartbeat     *)
(* stay, and every field of the frame sent at the next tick is taken from  *)
(* these, never from g_current_vel_kmph.                                   *)
C17_VelocityFeedbackNotArbitrated ==
  /\ [][VelStep =>
          UNCHANGED <<g_mode, autoVars, manualVars, brake, brake_guard,
                      heart_beat, frame>>]_vars
  /\ [][SendStep =>
          frame'[1] =
            [mode |-> g_mode % 256,
             shift |-> g_shift,
             velocity |-> IF g_automode THEN g_target_velocity_ui16
                                        ELSE g_manual_target_velocity_ui16,
             steering |-> IF g_automode THEN g_steering_angle_deg_i16
                                        ELSE g_manual_steering_angle_deg_i16,
             brake |-> IF brake_guard THEN brake ELSE g_brake,
             heart_beat |-> heart_beat]]_vars

\* the second frame was sent after a velocity message had been processed, and
\* carries the manual velocity
C17_Witness ==
  /\ pc = "spin"
  /\ spun = {}
  /\ frame # <<>>
  /\ frame[1].heart_beat = 1
  /\ g_current_vel_kmph # 0
  /\ ~g_automode
  /\ frame[1].velocity = 30

(* C18.  After twist_cmd_callback the autonomous sample is the one of the  *)
(* command just processed, and the manual sample, g_automode, the shift    *)
(* and the brake are as before; after current_joy_callback the manual      *)
(* sample is the one of the event just processed and the autonomous sample *)
(* is as before; a frame carries the velocity and steering current when it *)
(* is built.                                                               *)
C18_AutoSample(m) ==
  CASE m.linear_x = 200 /\ m.angular_z = 10 -> <<72, -148>>
    [] m.linear_x = 100 /\ m.angular_z = -20 -> <<36, 176>>
C18_ManualSample(m) ==
  << IF m.buttons[1] = 1 THEN 30 ELSE 0,
     IF m.axes[0] = 3 THEN -155 ELSE -80 >>
C18_LastWriteWins ==
  /\ [][TwistStep =>
          /\ UNCHANGED manualVars
          /\ \A m \in TwistMsgs :
               twist_cmd_callback(m) =>
                 <<g_target_velocity_ui16', g_steering_angle_deg_i16'>>
                   = C18_AutoSample(m)]_vars
  /\ [][JoyStep =>
          /\ UNCHANGED autoVars
          /\ \A m \in JoyMsgsSources :
               current_joy_callback(m) =>
                 <<g_manual_target_velocity_ui16',
                   g_manual_steering_angle_deg_i16'>> = C18_ManualSample(m)]_vars
  /\ [][SendStep =>
          <<frame'[1].velocity, frame'[1].steering>> \in
            { <<g_target_velocity_ui16, g_steering_angle_deg_i16>>,
              <<g_manual_target_velocity_ui16,
                g_manual_steering_angle_deg_i16>> }]_vars

\* in the second spinOnce a second command has replaced the first, and the
\* manual sample of the first spinOnce is still stored
C18_Witness ==
  /\ pc = "spin"
  /\ heart_beat = 1
  /\ spun = {"twist_cmd"}
  /\ frame # <<>>
  /\ frame[1].velocity = 72
  /\ g_automode
  /\ g_target_velocity_ui16 = 36
  /\ g_manual_target_velocity_ui16 = 30
  /\ g_manual_steering_angle_deg_i16 = -155

(* C19.  The pipe is closed only after the control loop has ended and both *)
(* threads have returned: whenever it is closed, changeMode and            *)
(* readCanData are done; and no frame is sent once g_terminate_thread is   *)
(* set.                                                                    *)
C19_ReleaseAfterJoins ==
  /\ [](fp = "closed" =>
          /\ pc = "done"
          /\ pc1 = "done"
          /\ pc2 = "done"
          /\ g_terminate_thread)
  /\ [][g_terminate_thread => frame' = frame]_vars

\* the pipe is closed after frames were sent and a velocity was published
C19_Witness ==
  /\ fp = "closed"
  /\ frame # <<>>
  /\ frame[1].heart_beat = 1
  /\ published # <<>>

(* C20.  g_automode is false at startup and until a joy event with button  *)
(* 12 has been processed: only such an event takes it from false to true,  *)
(* and while it is false every frame carries the velocity and steering of  *)
(* the manual sample, which are 0 and 0 in the first frame.                *)
C20_AutonomyOffUntilResumed ==
  /\ [](frame = <<>> => ~g_automode)
  /\ [][(~g_automode /\ g_automode') =>
          \E m \in JoyMsgsSources :
            m.buttons[12] = 1 /\ current_joy_callback(m)]_vars
  /\ [][(SendStep /\ ~g_automode) =>
          /\ frame'[1].velocity = g_manual_target_velocity_ui16
          /\ frame'[1].steering = g_manual_steering_angle_deg_i16]_vars
  /\ [][(SendStep /\ frame = <<>>) =>
          /\ frame'[1].velocity = 0
          /\ frame'[1].steering = 0]_vars

\* the second frame carries the manual sample while a command is stored and
\* autonomy was never resumed
C20_Witness ==
  /\ pc = "spin"
  /\ spun = {}
  /\ frame # <<>>
  /\ frame[1].heart_beat = 1
  /\ ~g_automode
  /\ g_target_velocity_ui16 = 72
  /\ frame[1].velocity = 30
  /\ frame[1].steering = -155

====
